---------------------------- MODULE Spec2Model ----------------------------
(***************************************************************************)
(* A model of gevent's PeriodicMonitoringThread (src/gevent/_monitor.py):  *)
(* the greenlet trace hook, the table of monitoring functions, the loop of *)
(* the monitoring thread and the blocking detector.                        *)
(*                                                                         *)
(* Times and periods are integers counting milliseconds: 0.005 s is 5 and  *)
(* 2.0 s is 2000.  Python's None is the string "None" where the value is a *)
(* name (a hook, a greenlet, the hub) and a separate flag where the value  *)
(* is a number (the period argument of add_monitoring_function).           *)
(*                                                                         *)
(* _MonitorEntry objects are mutable and shared between the list held by   *)
(* the object and the list the monitoring thread iterates over, so they    *)
(* live in a heap and the lists hold their addresses.                      *)
(***************************************************************************)
EXTENDS Integers, Sequences, FiniteSets, TLC

\* ------------------------------------------------------------ bounds
\* the monitoring thread completes at most this many sleeps
MaxSleeps == 2
\* the program around the monitor makes at most this many calls in all:
\* trace events, add_monitoring_function, settings of max_blocking_time
MaxEnv == 3

\* ------------------------------------------------- program constants
inactive_sleep_time == 2000
min_sleep_time == 5

\* ------------------------------------------------------ input domains
None == "None"
\* the hub's own greenlet and one other greenlet
Hub == "hub"
Greenlets == {Hub, "g1"}
\* the callables given to add_monitoring_function: the built-in detector,
\* one that returns normally and one that raises on every call
MonitorBlocking == "monitor_blocking"
Good == "good"
Bad == "bad"
Callables == {MonitorBlocking, Good, Bad}
NotCallable == "not_callable"
FunctionArgs == Callables \cup {NotCallable}
\* the period argument: None, or a number
PeriodArgs == {[none |-> TRUE, value |-> 0]}
                 \cup {[none |-> FALSE, value |-> v] : v \in {-1, 0, 3, 10}}
\* values of GEVENT_CONFIG.max_blocking_time
MbtValues == {-1, 0, 4, 20}
\* the trace events greenlet delivers, and one it does not define
Events == {"switch", "throw", "other"}
\* the two threads, and the trace functions a thread may have installed
HubThread == "hub_thread"
MonitorThread == "monitor_thread"
Threads == {HubThread, MonitorThread}
GreenletTrace == "greenlet_trace"
OtherHook == "other_hook"
\* the first value of perf_counter
ClockStarts == {0}

\* ------------------------------------------------------------- heap
\* every callable has at most one entry in each of the two lists, and
\* add_monitoring_function makes its new entry before the old one goes
Ids == 1 .. (2 * Cardinality(Callables) + 1)
Free == [function |-> "free", period |-> 0, last_run_time |-> 0]

VARIABLES
    heap,                    \* address -> _MonitorEntry (or Free)
    monitoring_functions,    \* self._monitoring_functions: addresses
    calculated_sleep_time,   \* self._calculated_sleep_time
    should_run,              \* self.should_run
    previous_trace_function, \* self.previous_trace_function
    trace,                   \* greenlet's trace function of each thread
    switch_counter,          \* self._greenlet_switch_counter
    active_greenlet,         \* self._active_greenlet
    hub_state,               \* the hub: "active", "dead" (falsy) or "gone"
    gc_pending,              \* the weak reference's callback is yet to run
    max_blocking_time,       \* GEVENT_CONFIG.max_blocking_time
    now,                     \* perf_counter()
    pc,                      \* where the monitoring thread is in __call__
    functions,               \* __call__'s local: the list it iterates
    sleep_time,              \* __call__'s local
    min_sleep,               \* calculate_sleep_time's local
    hub,                     \* __call__'s local strong reference
    this_run,                \* __call__'s local
    idx,                     \* position of the for loop in functions
    \* what an observer of the program sees
    called,                  \* the functions invoked in the current pass
    mb_result,               \* what the last monitor_blocking returned
    reports,                 \* reports written to hub.exception_stream
    exc,                     \* the exception __call__'s handler caught
    handled,                 \* hub.handle_error calls
    last_error,              \* outcome of the last add_monitoring_function
    hook_before,             \* the hub thread's hook before __init__
    last_fwd,                \* what the last trace event forwarded
    nsleeps,                 \* sleeps completed
    nenv,                    \* calls made by the program around
    sleeps_at_gc,            \* nsleeps when the hub was collected
    \* the calls in progress, for the specifications that interleave the
    \* reads and writes of two threads
    tracer,                  \* greenlet_trace on the hub thread
    detector,                \* monitor_blocking's locals
    since_read,              \* events delivered since the counter was read
    since_clear,             \* stores of the counter since it was cleared
    killers,                 \* where each thread is in kill()
    settraces,               \* the settrace calls kill() has made
    adder,                   \* add_monitoring_function on the hub thread
    refresh_min              \* monitoring_functions()'s min(), to be stored

vars == <<heap, monitoring_functions, calculated_sleep_time, should_run,
          previous_trace_function, trace, switch_counter, active_greenlet,
          hub_state, gc_pending, max_blocking_time, now, pc, functions,
          sleep_time, min_sleep, hub, this_run, idx, called, mb_result,
          reports, exc, handled, last_error, hook_before, last_fwd,
          nsleeps, nenv, sleeps_at_gc, tracer, detector, since_read,
          since_clear, killers, settraces, adder, refresh_min>>

\* the variables of the calls in progress
steps == <<tracer, detector, since_read, since_clear, killers, settraces,
           adder, refresh_min>>

\* no call is in progress
Idle == "idle"

\* ---------------------------------------------------------- helpers
Range(s) == {s[i] : i \in 1 .. Len(s)}

Min(S) == CHOOSE x \in S : \A y \in S : x <= y

Max(S) == CHOOSE x \in S : \A y \in S : y <= x

\* objects no list refers to are collected
Reachable(h, lists) ==
    [i \in Ids |-> IF \E l \in lists : i \in Range(l) THEN h[i] ELSE Free]

NewId(h) == Min({i \in Ids : h[i] = Free})

\* _MonitorEntry.__init__
MonitorEntry(function, period) ==
    [function |-> function, period |-> period, last_run_time |-> 0]

\* _MonitorEntry.__eq__
EntryEq(a, b) == a.function = b.function /\ a.period = b.period


Periods(h, t) == {h[t[i]].period : i \in 1 .. Len(t)}

\* ------------------------------------------------------------- Init
\* The state when __init__ returns: the trace function is installed on the
\* hub thread, the list holds the detector's entry, the thread is started.
Init ==
    /\ max_blocking_time \in MbtValues
    /\ hook_before \in {None, OtherHook}
    /\ now \in ClockStarts
    /\ heap = [i \in Ids |->
                 IF i = 1 THEN MonitorEntry(MonitorBlocking, max_blocking_time)
                          ELSE Free]
    /\ monitoring_functions = <<1>>
    /\ calculated_sleep_time = max_blocking_time
    /\ should_run = TRUE
    /\ previous_trace_function = hook_before
    /\ trace = [t \in Threads |->
                  IF t = HubThread THEN GreenletTrace ELSE None]
    /\ switch_counter = 0
    /\ active_greenlet = None
    /\ hub_state = "active"
    /\ gc_pending = FALSE
    /\ pc = "top"
    /\ functions = <<>>
    /\ sleep_time = 0
    /\ min_sleep = 0
    /\ hub = None
    /\ this_run = 0
    /\ idx = 0
    /\ called = <<>>
    /\ mb_result = [task |-> None, report |-> FALSE]
    /\ reports = 0
    /\ exc = None
    /\ handled = 0
    /\ last_error = None
    /\ last_fwd = [n |-> 0, event |-> None, target |-> None]
    /\ nsleeps = 0
    /\ nenv = 0
    /\ sleeps_at_gc = 0
    /\ tracer = [pc |-> Idle, load |-> 0, event |-> None, target |-> None]
    /\ detector = [active |-> None, did_switch |-> FALSE,
                   delivered |-> 0, stored |-> 0]
    /\ since_read = 0
    /\ since_clear = 0
    /\ killers = [t \in Threads |-> Idle]
    /\ settraces = <<>>
    /\ adder = [pc |-> Idle, min |-> 0]
    /\ refresh_min = 0

\* --------------------------------------------------- the trace hook
\* a trace function that takes the target of 'switch' events only
TracedGreenlet_SwitchOnly(event, target) ==
    IF event = "switch" THEN target ELSE None

\* lines 107-112: the greenlet the event attributes the thread to
TracedGreenlet(event, target) ==
    IF event \in {"switch", "throw"} THEN target ELSE None

\* lines 113-114: the call made to the previously installed function
Forwarded(prev, event, target) ==
    IF prev # None
    THEN [n |-> 1, event |-> event, target |-> target]
    ELSE [n |-> 0, event |-> None, target |-> None]

\* greenlet_trace(event, args), args = (origin, target)
greenlet_trace(event, target) ==
    /\ switch_counter' = switch_counter + 1
    /\ active_greenlet' = TracedGreenlet(event, target)
    /\ last_fwd' = Forwarded(previous_trace_function, event, target)

\* greenlet delivers an event on the hub thread to the function installed
\* there: ours, another one, or none
SwitchEvent(event, target) ==
    /\ nenv < MaxEnv
    /\ nenv' = nenv + 1
    /\ IF trace[HubThread] = GreenletTrace
       THEN greenlet_trace(event, target)
       ELSE /\ last_fwd' = Forwarded(trace[HubThread], event, target)
            /\ UNCHANGED <<switch_counter, active_greenlet>>
    /\ UNCHANGED <<heap, monitoring_functions, calculated_sleep_time,
                   should_run, previous_trace_function, trace, hub_state,
                   gc_pending, max_blocking_time, now, pc, functions,
                   sleep_time, min_sleep, hub, this_run, idx, called,
                   mb_result, reports, exc, handled, last_error,
                   hook_before, nsleeps,
                   sleeps_at_gc, steps>>

\* ignore_current_greenlet_blocking()
IgnoreCurrentGreenletBlocking ==
    /\ nenv < MaxEnv
    /\ nenv' = nenv + 1
    /\ active_greenlet' = None
    /\ UNCHANGED <<heap, monitoring_functions, calculated_sleep_time,
                   should_run, previous_trace_function, trace,
                   switch_counter, hub_state, gc_pending,
                   max_blocking_time, now, pc, functions, sleep_time,
                   min_sleep, hub, this_run, idx, called, mb_result,
                   reports, exc, handled, last_error, hook_before,
                   last_fwd, nsleeps,
                   sleeps_at_gc, steps>>

\* monitor_current_greenlet_blocking(), called in greenlet g
MonitorCurrentGreenletBlocking(g) ==
    /\ nenv < MaxEnv
    /\ nenv' = nenv + 1
    /\ active_greenlet' = g
    /\ UNCHANGED <<heap, monitoring_functions, calculated_sleep_time,
                   should_run, previous_trace_function, trace,
                   switch_counter, hub_state, gc_pending,
                   max_blocking_time, now, pc, functions, sleep_time,
                   min_sleep, hub, this_run, idx, called, mb_result,
                   reports, exc, handled, last_error, hook_before,
                   last_fwd, nsleeps,
                   sleeps_at_gc, steps>>

\* ------------------------------------------------------------- kill
\* a kill() without its test that keeps what settrace returns as the
\* previous trace function
kill_Swap(thread) ==
    /\ should_run' = FALSE
    /\ trace' = [trace EXCEPT ![thread] = previous_trace_function]
    /\ previous_trace_function' = trace[thread]

\* kill(), called on `thread`: settrace acts on the calling thread
kill(thread) ==
    IF ~should_run
    THEN UNCHANGED <<should_run, trace, previous_trace_function>>
    ELSE /\ should_run' = FALSE
         /\ trace' = [trace EXCEPT ![thread] = previous_trace_function]
         /\ previous_trace_function' = None

\* an explicit kill(), made on the hub thread
Kill ==
    /\ kill(HubThread)
    /\ UNCHANGED <<heap, monitoring_functions, calculated_sleep_time,
                   switch_counter, active_greenlet, hub_state, gc_pending,
                   max_blocking_time, now, pc, functions, sleep_time,
                   min_sleep, hub, this_run, idx, called, mb_result,
                   reports, exc, handled, last_error, hook_before,
                   last_fwd, nsleeps, nenv,
                   sleeps_at_gc, steps>>

\* The hub's greenlet finishes: the object is still there and is falsy.
HubDies ==
    /\ hub_state = "active"
    /\ hub_state' = "dead"
    /\ UNCHANGED <<heap, monitoring_functions, calculated_sleep_time,
                   should_run, previous_trace_function, trace,
                   switch_counter, active_greenlet, gc_pending,
                   max_blocking_time, now, pc, functions, sleep_time,
                   min_sleep, hub, this_run, idx, called, mb_result,
                   reports, exc, handled, last_error, hook_before,
                   last_fwd, nsleeps, nenv,
                   sleeps_at_gc, steps>>

\* The last strong reference to the hub goes: the weak reference is
\* cleared and its callback is due.  __call__'s local `hub` is a strong
\* reference, so this cannot happen while it is set.
HubCollected ==
    /\ hub_state # "gone"
    /\ hub = None
    /\ hub_state' = "gone"
    /\ gc_pending' = TRUE
    /\ sleeps_at_gc' = nsleeps
    /\ UNCHANGED <<heap, monitoring_functions, calculated_sleep_time,
                   should_run, previous_trace_function, trace,
                   switch_counter, active_greenlet, max_blocking_time,
                   now, pc, functions, sleep_time, min_sleep, hub,
                   this_run, idx, called, mb_result, reports, exc,
                   handled, last_error, hook_before, last_fwd, nsleeps,
                   nenv, steps>>

\* _on_hub_gc(_), on the thread that dropped the reference
OnHubGc(thread) ==
    /\ gc_pending
    /\ gc_pending' = FALSE
    /\ kill(thread)
    /\ UNCHANGED <<heap, monitoring_functions, calculated_sleep_time,
                   switch_counter, active_greenlet, hub_state,
                   max_blocking_time, now, pc, functions, sleep_time,
                   min_sleep, hub, this_run, idx, called, mb_result,
                   reports, exc, handled, last_error, hook_before,
                   last_fwd, nsleeps, nenv,
                   sleeps_at_gc, steps>>

\* GEVENT_CONFIG.max_blocking_time is set
ConfigChange(v) ==
    /\ nenv < MaxEnv
    /\ nenv' = nenv + 1
    /\ v # max_blocking_time
    /\ max_blocking_time' = v
    /\ UNCHANGED <<heap, monitoring_functions, calculated_sleep_time,
                   should_run, previous_trace_function, trace,
                   switch_counter, active_greenlet, hub_state, gc_pending,
                   now, pc, functions, sleep_time, min_sleep, hub,
                   this_run, idx, called, mb_result, reports, exc,
                   handled, last_error, hook_before, last_fwd, nsleeps,
                   sleeps_at_gc, steps>>

\* ---------------------------------------------- the list of entries
\* line 141
IsCallable(function) == function \in Callables

\* a test that lets a period of 0 through
PeriodAllowed_Zero(value) == value >= 0

\* line 150, negated
PeriodAllowed(value) == value > 0

\* a removal with its test inverted: the entries of `function` are kept
RemovedList_Inverted(h, t, function) ==
    SelectSeq(t, LAMBDA i : h[i].function = function)

\* lines 146-149: the list without the entries of `function`
RemovedList(h, t, function) ==
    SelectSeq(t, LAMBDA i : h[i].function # function)

\* a registration that puts the entry of a new function first
AddedList_Front(h, t, function, id) ==
    LET t1 == [i \in 1 .. Len(t) |->
                 IF h[t[i]].function = function THEN id ELSE t[i]]
    IN  IF \E i \in 1 .. Len(t1) : EntryEq(h[t1[i]], h[id])
        THEN t1
        ELSE <<id>> \o t1

\* an update that always appends the new entry
AddedList_Append(h, t, function, id) == Append(t, id)

\* lines 155-160: the list with the entry at address `id` (already in h)
\* in the place of every entry of `function`, or at the end
AddedList(h, t, function, id) ==
    LET t1 == [i \in 1 .. Len(t) |->
                 IF h[t[i]].function # function THEN t[i] ELSE id]
    IN  IF \E i \in 1 .. Len(t1) : EntryEq(h[t1[i]], h[id])
        THEN t1
        ELSE Append(t1, id)

\* lines 123 and 161: min(x.period for x in self._monitoring_functions)
MinPeriod(h, t) == Min(Periods(h, t))

\* add_monitoring_function(function, period)
add_monitoring_function(function, period) ==
    IF ~IsCallable(function)
    THEN /\ last_error' = "ValueError: function must be callable"
         /\ UNCHANGED <<heap, monitoring_functions, calculated_sleep_time>>
    ELSE IF period.none
    THEN LET t1 == RemovedList(heap, monitoring_functions, function)
         IN  /\ monitoring_functions' = t1
             /\ heap' = Reachable(heap, {t1, functions})
             /\ IF t1 = <<>>
                THEN /\ last_error' = "ValueError: min() of an empty sequence"
                     /\ UNCHANGED calculated_sleep_time
                ELSE /\ last_error' = None
                     /\ calculated_sleep_time' = MinPeriod(heap, t1)
    ELSE IF ~PeriodAllowed(period.value)
    THEN /\ last_error' = "ValueError: Period must be positive."
         /\ UNCHANGED <<heap, monitoring_functions, calculated_sleep_time>>
    ELSE LET id == NewId(heap)
             h1 == [heap EXCEPT ![id] = MonitorEntry(function, period.value)]
             t1 == AddedList(h1, monitoring_functions, function, id)
         IN  /\ monitoring_functions' = t1
             /\ heap' = Reachable(h1, {t1, functions})
             /\ calculated_sleep_time' = MinPeriod(h1, t1)
             /\ last_error' = None

\* A call of add_monitoring_function.  The entry of monitor_blocking is
\* never removed (line 77: the first entry is always that one).
AddMonitoringFunction(function, period) ==
    /\ nenv < MaxEnv
    /\ nenv' = nenv + 1
    /\ ~(period.none /\ function = MonitorBlocking)
    /\ add_monitoring_function(function, period)
    /\ UNCHANGED <<should_run, previous_trace_function, trace,
                   switch_counter, active_greenlet, hub_state, gc_pending,
                   max_blocking_time, now, pc, functions, sleep_time,
                   min_sleep, hub, this_run, idx, called, mb_result,
                   reports, exc, handled, hook_before, last_fwd, nsleeps,
                   sleeps_at_gc, steps>>

\* a sleep time without the floor
calculate_sleep_time_NoFloor(m) ==
    IF m <= 0 THEN inactive_sleep_time ELSE m

\* calculate_sleep_time(), with min_sleep = self._calculated_sleep_time
calculate_sleep_time(m) ==
    IF m <= 0 THEN inactive_sleep_time ELSE Max({m, min_sleep_time})

\* --------------------------------------------- the monitoring thread
\* lines 192-195: the loop's test, monitoring_functions() and
\* calculate_sleep_time()
LoopTop ==
    /\ pc = "top"
    /\ IF ~should_run
       THEN /\ pc' = "done"
            /\ functions' = <<>>
            /\ heap' = Reachable(heap, {monitoring_functions})
            /\ UNCHANGED <<calculated_sleep_time, sleep_time, min_sleep,
                           exc, handled>>
       ELSE IF monitoring_functions = <<>>
       THEN \* self._monitoring_functions[0] raises IndexError
            /\ pc' = "done"
            /\ exc' = "IndexError"
            /\ handled' = handled + (IF hub_state # "gone" THEN 1 ELSE 0)
            /\ functions' = <<>>
            /\ heap' = Reachable(heap, {monitoring_functions})
            /\ UNCHANGED <<calculated_sleep_time, sleep_time, min_sleep>>
       ELSE LET t == monitoring_functions
                changed == max_blocking_time # heap[t[1]].period
                h1 == IF changed
                      THEN [heap EXCEPT ![t[1]].period = max_blocking_time]
                      ELSE heap
                m == IF changed THEN MinPeriod(h1, t)
                                ELSE calculated_sleep_time
            IN  /\ heap' = Reachable(h1, {t})
                /\ calculated_sleep_time' = m
                /\ functions' = t
                /\ min_sleep' = m
                /\ sleep_time' = calculate_sleep_time(m)
                /\ pc' = "sleeping"
                /\ UNCHANGED <<exc, handled>>
    /\ UNCHANGED <<monitoring_functions, should_run,
                   previous_trace_function, trace, switch_counter,
                   active_greenlet, hub_state, gc_pending,
                   max_blocking_time, now, hub, this_run, idx, called,
                   mb_result, reports, last_error, hook_before, last_fwd,
                   nsleeps, nenv,
                   sleeps_at_gc, steps>>

\* line 197: thread_sleep(sleep_time) returns
Wake ==
    /\ pc = "sleeping"
    /\ nsleeps < MaxSleeps
    /\ nsleeps' = nsleeps + 1
    /\ now' = now + sleep_time
    /\ pc' = "awake"
    /\ UNCHANGED <<heap, monitoring_functions, calculated_sleep_time,
                   should_run, previous_trace_function, trace,
                   switch_counter, active_greenlet, hub_state, gc_pending,
                   max_blocking_time, functions, sleep_time, min_sleep,
                   hub, this_run, idx, called, mb_result, reports, exc,
                   handled, last_error, hook_before, last_fwd, nenv,
                   sleeps_at_gc, steps>>

\* a loop without the test of line 205: it kills itself when it finds no
\* hub and takes its pass in any case
AfterSleep_NoRecheck ==
    /\ pc = "awake"
    /\ IF hub_state # "active"
       THEN kill(MonitorThread)
       ELSE UNCHANGED <<should_run, trace, previous_trace_function>>
    /\ hub' = (IF hub_state # "gone" THEN Hub ELSE None)
    /\ this_run' = now
    /\ idx' = 1
    /\ called' = <<>>
    /\ pc' = "pass"
    /\ UNCHANGED <<heap, monitoring_functions, calculated_sleep_time,
                   switch_counter, active_greenlet, hub_state, gc_pending,
                   max_blocking_time, now, functions, sleep_time,
                   min_sleep, mb_result, reports, exc, handled,
                   last_error, hook_before, last_fwd, nsleeps, nenv,
                   sleeps_at_gc, steps>>

\* a loop that goes on to its pass whether or not it finds the hub
AfterSleep_NoKill ==
    /\ pc = "awake"
    /\ hub' = Hub
    /\ this_run' = now
    /\ idx' = 1
    /\ called' = <<>>
    /\ pc' = "pass"
    /\ UNCHANGED <<should_run, trace, previous_trace_function, heap,
                   monitoring_functions, calculated_sleep_time,
                   switch_counter, active_greenlet, hub_state, gc_pending,
                   max_blocking_time, now, functions, sleep_time,
                   min_sleep, mb_result, reports, exc, handled,
                   last_error, hook_before, last_fwd, nsleeps, nenv,
                   sleeps_at_gc, steps>>

\* lines 201-206: the hub is looked up, the thread kills itself when the
\* hub is gone or falsy, and should_run is tested again
AfterSleep ==
    /\ pc = "awake"
    /\ IF hub_state # "active"
       THEN kill(MonitorThread)
       ELSE UNCHANGED <<should_run, trace, previous_trace_function>>
    /\ IF should_run'
       THEN /\ hub' = Hub
            /\ this_run' = now
            /\ idx' = 1
            /\ called' = <<>>
            /\ pc' = "pass"
       ELSE /\ hub' = None
            /\ pc' = "top"
            /\ UNCHANGED <<this_run, idx, called>>
    /\ UNCHANGED <<heap, monitoring_functions, calculated_sleep_time,
                   switch_counter, active_greenlet, hub_state, gc_pending,
                   max_blocking_time, now, functions, sleep_time,
                   min_sleep, mb_result, reports, exc, handled,
                   last_error, hook_before, last_fwd, nsleeps, nenv,
                   sleeps_at_gc, steps>>

\* line 211
IsDue(period, last_run, run) == period # 0 /\ last_run + period <= run

\* a for loop that tests should_run before each entry and leaves the pass
\* when it is false
PassStep_Interrupted ==
    /\ pc = "pass"
    /\ IF idx > Len(functions) \/ ~should_run
       THEN /\ pc' = "top"
            /\ hub' = None
            /\ idx' = 0
            /\ UNCHANGED heap
       ELSE LET e == heap[functions[idx]]
            IN  IF IsDue(e.period, e.last_run_time, this_run)
                THEN /\ heap' = [heap EXCEPT
                                   ![functions[idx]].last_run_time = this_run]
                     /\ pc' = "call"
                     /\ UNCHANGED <<hub, idx>>
                ELSE /\ idx' = idx + 1
                     /\ UNCHANGED <<heap, pc, hub>>
    /\ UNCHANGED <<monitoring_functions, calculated_sleep_time, should_run,
                   previous_trace_function, trace, switch_counter,
                   active_greenlet, hub_state, gc_pending,
                   max_blocking_time, now, functions, sleep_time,
                   min_sleep, this_run, called, mb_result, reports, exc,
                   handled, last_error, hook_before, last_fwd, nsleeps,
                   nenv,
                   sleeps_at_gc, steps>>

\* lines 207-212 and 214: the for loop takes its next entry
PassStep ==
    /\ pc = "pass"
    /\ IF idx > Len(functions)
       THEN /\ pc' = "top"
            /\ hub' = None
            /\ idx' = 0
            /\ UNCHANGED heap
       ELSE LET e == heap[functions[idx]]
            IN  IF IsDue(e.period, e.last_run_time, this_run)
                THEN /\ heap' = [heap EXCEPT
                                   ![functions[idx]].last_run_time = this_run]
                     /\ pc' = "call"
                     /\ UNCHANGED <<hub, idx>>
                ELSE /\ idx' = idx + 1
                     /\ UNCHANGED <<heap, pc, hub>>
    /\ UNCHANGED <<monitoring_functions, calculated_sleep_time, should_run,
                   previous_trace_function, trace, switch_counter,
                   active_greenlet, hub_state, gc_pending,
                   max_blocking_time, now, functions, sleep_time,
                   min_sleep, this_run, called, mb_result, reports, exc,
                   handled, last_error, hook_before, last_fwd, nsleeps,
                   nenv,
                   sleeps_at_gc, steps>>

\* a detector that reports the hub's own greenlet as blocked
Blocked_HubToo(did_switch, active, h) ==
    ~(did_switch \/ active = None)

\* line 246, negated: monitor_blocking has something to report
Blocked(did_switch, active, h) ==
    ~(did_switch \/ active = None \/ active = h)

\* monitor_blocking(hub)
monitor_blocking(h) ==
    LET active == active_greenlet
        did_switch == switch_counter # 0
    IN  /\ switch_counter' = 0
        /\ IF Blocked(did_switch, active, h)
           THEN /\ reports' = reports + 1
                /\ mb_result' = [task |-> active, report |-> TRUE]
           ELSE /\ mb_result' = [task |-> None, report |-> FALSE]
                /\ UNCHANGED reports

\* line 213: f(hub); an exception leaves the loops for line 218
Call ==
    /\ pc = "call"
    /\ LET f == heap[functions[idx]].function
       IN  /\ called' = Append(called, f)
           /\ IF f = Bad
              THEN /\ exc' = "Exception"
                   /\ handled' = handled + 1
                   /\ pc' = "done"
                   /\ hub' = None
                   /\ functions' = <<>>
                   /\ heap' = Reachable(heap, {monitoring_functions})
                   /\ UNCHANGED <<idx, switch_counter, mb_result, reports>>
              ELSE /\ IF f = MonitorBlocking
                      THEN monitor_blocking(hub)
                      ELSE UNCHANGED <<switch_counter, mb_result, reports>>
                   /\ idx' = idx + 1
                   /\ pc' = "pass"
                   /\ UNCHANGED <<exc, handled, hub, functions, heap>>
    /\ UNCHANGED <<monitoring_functions, calculated_sleep_time, should_run,
                   previous_trace_function, trace, active_greenlet,
                   hub_state, gc_pending, max_blocking_time, now,
                   sleep_time, min_sleep, this_run, last_error,
                   hook_before, last_fwd, nsleeps, nenv,
                   sleeps_at_gc, steps>>

\* ------------------------------- greenlet_trace and monitor_blocking,
\* one read or write of the monitor's attributes at a time
\* line 106, first half: greenlet calls greenlet_trace(event, args) on the
\* hub thread, and `+= 1` loads the counter
TraceLoad(event, target) ==
    /\ nenv < MaxEnv
    /\ nenv' = nenv + 1
    /\ trace[HubThread] = GreenletTrace
    /\ tracer.pc = Idle
    /\ tracer' = [pc |-> "store", load |-> switch_counter,
                  event |-> event, target |-> target]
    /\ since_read' = since_read + 1
    /\ UNCHANGED <<heap, monitoring_functions, calculated_sleep_time,
                   should_run, previous_trace_function, trace,
                   switch_counter, active_greenlet, hub_state, gc_pending,
                   max_blocking_time, now, pc, functions, sleep_time,
                   min_sleep, hub, this_run, idx, called, mb_result,
                   reports, exc, handled, last_error, hook_before, last_fwd,
                   nsleeps, sleeps_at_gc, detector, since_clear, killers,
                   settraces, adder, refresh_min>>

\* line 106, second half: `+= 1` stores the counter
TraceStore ==
    /\ tracer.pc = "store"
    /\ switch_counter' = tracer.load + 1
    /\ since_clear' = since_clear + 1
    /\ tracer' = [tracer EXCEPT !.pc = "active"]
    /\ UNCHANGED <<heap, monitoring_functions, calculated_sleep_time,
                   should_run, previous_trace_function, trace,
                   active_greenlet, hub_state, gc_pending,
                   max_blocking_time, now, pc, functions, sleep_time,
                   min_sleep, hub, this_run, idx, called, mb_result,
                   reports, exc, handled, last_error, hook_before, last_fwd,
                   nsleeps, nenv, sleeps_at_gc, detector, since_read,
                   killers, settraces, adder, refresh_min>>

\* lines 107-112
TraceActive ==
    /\ tracer.pc = "active"
    /\ active_greenlet' = TracedGreenlet(tracer.event, tracer.target)
    /\ tracer' = [tracer EXCEPT !.pc = "forward"]
    /\ UNCHANGED <<heap, monitoring_functions, calculated_sleep_time,
                   should_run, previous_trace_function, trace,
                   switch_counter, hub_state, gc_pending, max_blocking_time,
                   now, pc, functions, sleep_time, min_sleep, hub, this_run,
                   idx, called, mb_result, reports, exc, handled,
                   last_error, hook_before, last_fwd, nsleeps, nenv,
                   sleeps_at_gc, detector, since_read, since_clear, killers,
                   settraces, adder, refresh_min>>

\* lines 113-114, and the return
TraceForward ==
    /\ tracer.pc = "forward"
    /\ last_fwd' = Forwarded(previous_trace_function, tracer.event,
                             tracer.target)
    /\ tracer' = [pc |-> Idle, load |-> 0, event |-> None, target |-> None]
    /\ UNCHANGED <<heap, monitoring_functions, calculated_sleep_time,
                   should_run, previous_trace_function, trace,
                   switch_counter, active_greenlet, hub_state, gc_pending,
                   max_blocking_time, now, pc, functions, sleep_time,
                   min_sleep, hub, this_run, idx, called, mb_result,
                   reports, exc, handled, last_error, hook_before, nsleeps,
                   nenv, sleeps_at_gc, detector, since_read, since_clear,
                   killers, settraces, adder, refresh_min>>

\* lines 213 and 242: the pass calls monitor_blocking(hub), which reads
\* the active greenlet
BlockingReadActive ==
    /\ pc = "call"
    /\ heap[functions[idx]].function = MonitorBlocking
    /\ called' = Append(called, MonitorBlocking)
    /\ detector' = [detector EXCEPT !.active = active_greenlet]
    /\ pc' = "read_counter"
    /\ UNCHANGED <<heap, monitoring_functions, calculated_sleep_time,
                   should_run, previous_trace_function, trace,
                   switch_counter, active_greenlet, hub_state, gc_pending,
                   max_blocking_time, now, functions, sleep_time, min_sleep,
                   hub, this_run, idx, mb_result, reports, exc, handled,
                   last_error, hook_before, last_fwd, nsleeps, nenv,
                   sleeps_at_gc, tracer, since_read, since_clear, killers,
                   settraces, adder, refresh_min>>

\* a monitor_blocking that clears the counter without a look at it
BlockingReadCounter_Blind ==
    /\ pc = "read_counter"
    /\ detector' = [detector EXCEPT !.did_switch = FALSE,
                                    !.delivered = since_read,
                                    !.stored = since_clear]
    /\ since_read' = 0
    /\ pc' = "clear_counter"
    /\ UNCHANGED <<heap, monitoring_functions, calculated_sleep_time,
                   should_run, previous_trace_function, trace,
                   switch_counter, active_greenlet, hub_state, gc_pending,
                   max_blocking_time, now, functions, sleep_time, min_sleep,
                   hub, this_run, idx, called, mb_result, reports, exc,
                   handled, last_error, hook_before, last_fwd, nsleeps,
                   nenv, sleeps_at_gc, tracer, since_clear, killers,
                   settraces, adder, refresh_min>>

\* line 243: the counter is read
BlockingReadCounter ==
    /\ pc = "read_counter"
    /\ detector' = [detector EXCEPT !.did_switch = (switch_counter # 0),
                                    !.delivered = since_read,
                                    !.stored = since_clear]
    /\ since_read' = 0
    /\ pc' = "clear_counter"
    /\ UNCHANGED <<heap, monitoring_functions, calculated_sleep_time,
                   should_run, previous_trace_function, trace,
                   switch_counter, active_greenlet, hub_state, gc_pending,
                   max_blocking_time, now, functions, sleep_time, min_sleep,
                   hub, this_run, idx, called, mb_result, reports, exc,
                   handled, last_error, hook_before, last_fwd, nsleeps,
                   nenv, sleeps_at_gc, tracer, since_clear, killers,
                   settraces, adder, refresh_min>>

\* lines 244-272: the counter is cleared, and the locals decide what is
\* reported and returned
BlockingClear ==
    /\ pc = "clear_counter"
    /\ switch_counter' = 0
    /\ since_clear' = 0
    /\ IF Blocked(detector.did_switch, detector.active, hub)
       THEN /\ reports' = reports + 1
            /\ mb_result' = [task |-> detector.active, report |-> TRUE]
       ELSE /\ mb_result' = [task |-> None, report |-> FALSE]
            /\ UNCHANGED reports
    /\ idx' = idx + 1
    /\ pc' = "pass"
    /\ UNCHANGED <<heap, monitoring_functions, calculated_sleep_time,
                   should_run, previous_trace_function, trace,
                   active_greenlet, hub_state, gc_pending,
                   max_blocking_time, now, functions, sleep_time, min_sleep,
                   hub, this_run, called, exc, handled, last_error,
                   hook_before, last_fwd, nsleeps, nenv, sleeps_at_gc,
                   tracer, detector, since_read, killers, settraces, adder,
                   refresh_min>>

\* ------------------------------------ kill(), one statement at a time
\* line 173: kill() is entered on `thread` and tests should_run
kill_test(thread) ==
    IF should_run
    THEN killers' = [killers EXCEPT ![thread] = "set"]
    ELSE UNCHANGED killers

\* an explicit kill(), made on the hub thread
KillCall ==
    /\ killers[HubThread] = Idle
    /\ kill_test(HubThread)
    /\ UNCHANGED <<heap, monitoring_functions, calculated_sleep_time,
                   should_run, previous_trace_function, trace,
                   switch_counter, active_greenlet, hub_state, gc_pending,
                   max_blocking_time, now, pc, functions, sleep_time,
                   min_sleep, hub, this_run, idx, called, mb_result,
                   reports, exc, handled, last_error, hook_before, last_fwd,
                   nsleeps, nenv, sleeps_at_gc, tracer, detector,
                   since_read, since_clear, settraces, adder, refresh_min>>

\* _on_hub_gc(_), on the hub thread
GcKillCall ==
    /\ gc_pending
    /\ killers[HubThread] = Idle
    /\ gc_pending' = FALSE
    /\ kill_test(HubThread)
    /\ UNCHANGED <<heap, monitoring_functions, calculated_sleep_time,
                   should_run, previous_trace_function, trace,
                   switch_counter, active_greenlet, hub_state,
                   max_blocking_time, now, pc, functions, sleep_time,
                   min_sleep, hub, this_run, idx, called, mb_result,
                   reports, exc, handled, last_error, hook_before, last_fwd,
                   nsleeps, nenv, sleeps_at_gc, tracer, detector,
                   since_read, since_clear, settraces, adder, refresh_min>>

\* line 177
KillSet(thread) ==
    /\ killers[thread] = "set"
    /\ should_run' = FALSE
    /\ killers' = [killers EXCEPT ![thread] = "settrace"]
    /\ UNCHANGED <<heap, monitoring_functions, calculated_sleep_time,
                   previous_trace_function, trace, switch_counter,
                   active_greenlet, hub_state, gc_pending,
                   max_blocking_time, now, pc, functions, sleep_time,
                   min_sleep, hub, this_run, idx, called, mb_result,
                   reports, exc, handled, last_error, hook_before, last_fwd,
                   nsleeps, nenv, sleeps_at_gc, tracer, detector,
                   since_read, since_clear, settraces, adder, refresh_min>>

\* line 179: settrace acts on the calling thread, with the previous trace
\* function as it is read now
KillSettrace(thread) ==
    /\ killers[thread] = "settrace"
    /\ trace' = [trace EXCEPT ![thread] = previous_trace_function]
    /\ settraces' = Append(settraces, [thread |-> thread,
                                       function |-> previous_trace_function])
    /\ killers' = [killers EXCEPT ![thread] = "clear"]
    /\ UNCHANGED <<heap, monitoring_functions, calculated_sleep_time,
                   should_run, previous_trace_function, switch_counter,
                   active_greenlet, hub_state, gc_pending,
                   max_blocking_time, now, pc, functions, sleep_time,
                   min_sleep, hub, this_run, idx, called, mb_result,
                   reports, exc, handled, last_error, hook_before, last_fwd,
                   nsleeps, nenv, sleeps_at_gc, tracer, detector,
                   since_read, since_clear, adder, refresh_min>>

\* line 180, and the return
KillClear(thread) ==
    /\ killers[thread] = "clear"
    /\ previous_trace_function' = None
    /\ killers' = [killers EXCEPT ![thread] = Idle]
    /\ UNCHANGED <<heap, monitoring_functions, calculated_sleep_time,
                   should_run, trace, switch_counter, active_greenlet,
                   hub_state, gc_pending, max_blocking_time, now, pc,
                   functions, sleep_time, min_sleep, hub, this_run, idx,
                   called, mb_result, reports, exc, handled, last_error,
                   hook_before, last_fwd, nsleeps, nenv, sleeps_at_gc,
                   tracer, detector, since_read, since_clear, settraces,
                   adder, refresh_min>>

\* lines 201-203: the hub is looked up and, when it is gone or falsy,
\* kill() is entered on the monitoring thread
AwakeLook ==
    /\ pc = "awake"
    /\ hub' = (IF hub_state = "gone" THEN None ELSE Hub)
    /\ IF hub_state # "active"
       THEN kill_test(MonitorThread)
       ELSE UNCHANGED killers
    /\ pc' = "recheck"
    /\ UNCHANGED <<heap, monitoring_functions, calculated_sleep_time,
                   should_run, previous_trace_function, trace,
                   switch_counter, active_greenlet, hub_state, gc_pending,
                   max_blocking_time, now, functions, sleep_time, min_sleep,
                   this_run, idx, called, mb_result, reports, exc, handled,
                   last_error, hook_before, last_fwd, nsleeps, nenv,
                   sleeps_at_gc, tracer, detector, since_read, since_clear,
                   settraces, adder, refresh_min>>

\* lines 205-206: kill(), if called, has returned; should_run is tested
\* again
Recheck ==
    /\ pc = "recheck"
    /\ killers[MonitorThread] = Idle
    /\ IF should_run
       THEN /\ this_run' = now
            /\ idx' = 1
            /\ called' = <<>>
            /\ pc' = "pass"
            /\ UNCHANGED hub
       ELSE /\ hub' = None
            /\ pc' = "top"
            /\ UNCHANGED <<this_run, idx, called>>
    /\ UNCHANGED <<heap, monitoring_functions, calculated_sleep_time,
                   should_run, previous_trace_function, trace,
                   switch_counter, active_greenlet, hub_state, gc_pending,
                   max_blocking_time, now, functions, sleep_time, min_sleep,
                   mb_result, reports, exc, handled, last_error,
                   hook_before, last_fwd, nsleeps, nenv, sleeps_at_gc,
                   tracer, detector, since_read, since_clear, killers,
                   settraces, adder, refresh_min>>

\* ----------- monitoring_functions() and add_monitoring_function, with
\* the minimum of the periods computed in one step and stored in another
\* lines 141-160: the arguments are checked and the list is replaced
add_list(function, period) ==
    IF ~IsCallable(function)
    THEN /\ last_error' = "ValueError: function must be callable"
         /\ UNCHANGED <<heap, monitoring_functions, adder>>
    ELSE IF period.none
    THEN LET t1 == RemovedList(heap, monitoring_functions, function)
         IN  /\ monitoring_functions' = t1
             /\ heap' = Reachable(heap, {t1, functions})
             /\ last_error' = None
             /\ adder' = [adder EXCEPT !.pc = "min"]
    ELSE IF ~PeriodAllowed(period.value)
    THEN /\ last_error' = "ValueError: Period must be positive."
         /\ UNCHANGED <<heap, monitoring_functions, adder>>
    ELSE LET id == NewId(heap)
             h1 == [heap EXCEPT ![id] = MonitorEntry(function, period.value)]
             t1 == AddedList(h1, monitoring_functions, function, id)
         IN  /\ monitoring_functions' = t1
             /\ heap' = Reachable(h1, {t1, functions})
             /\ last_error' = None
             /\ adder' = [adder EXCEPT !.pc = "min"]

\* A call of add_monitoring_function on the hub thread, up to line 160.
\* The entry of monitor_blocking is never removed.
AddList(function, period) ==
    /\ nenv < MaxEnv
    /\ nenv' = nenv + 1
    /\ adder.pc = Idle
    /\ ~(period.none /\ function = MonitorBlocking)
    /\ add_list(function, period)
    /\ UNCHANGED <<calculated_sleep_time, should_run,
                   previous_trace_function, trace, switch_counter,
                   active_greenlet, hub_state, gc_pending,
                   max_blocking_time, now, pc, functions, sleep_time,
                   min_sleep, hub, this_run, idx, called, mb_result,
                   reports, exc, handled, hook_before, last_fwd, nsleeps,
                   sleeps_at_gc, tracer, detector, since_read, since_clear,
                   killers, settraces, refresh_min>>

\* line 161, the right-hand side: min() over the list as it is now
AddMin ==
    /\ adder.pc = "min"
    /\ adder' = [pc |-> "store",
                 min |-> MinPeriod(heap, monitoring_functions)]
    /\ UNCHANGED <<heap, monitoring_functions, calculated_sleep_time,
                   should_run, previous_trace_function, trace,
                   switch_counter, active_greenlet, hub_state, gc_pending,
                   max_blocking_time, now, pc, functions, sleep_time,
                   min_sleep, hub, this_run, idx, called, mb_result,
                   reports, exc, handled, last_error, hook_before, last_fwd,
                   nsleeps, nenv, sleeps_at_gc, tracer, detector,
                   since_read, since_clear, killers, settraces, refresh_min>>

\* line 161, the assignment, and the return
AddStore ==
    /\ adder.pc = "store"
    /\ calculated_sleep_time' = adder.min
    /\ adder' = [pc |-> Idle, min |-> 0]
    /\ UNCHANGED <<heap, monitoring_functions, should_run,
                   previous_trace_function, trace, switch_counter,
                   active_greenlet, hub_state, gc_pending,
                   max_blocking_time, now, pc, functions, sleep_time,
                   min_sleep, hub, this_run, idx, called, mb_result,
                   reports, exc, handled, last_error, hook_before, last_fwd,
                   nsleeps, nenv, sleeps_at_gc, tracer, detector,
                   since_read, since_clear, killers, settraces, refresh_min>>

\* whether monitoring_functions() finds a new max_blocking_time (line 121)
PeriodChanged ==
    /\ monitoring_functions # <<>>
    /\ max_blocking_time # heap[monitoring_functions[1]].period

\* lines 192-195 when the loop ends or line 121 finds nothing to update
LoopTopUnchanged ==
    /\ ~(should_run /\ PeriodChanged)
    /\ LoopTop

\* lines 192 and 120-122: the period of the first entry is set
RefreshPeriod ==
    /\ pc = "top"
    /\ should_run
    /\ PeriodChanged
    /\ heap' = [heap EXCEPT
                  ![monitoring_functions[1]].period = max_blocking_time]
    /\ pc' = "refresh_min"
    /\ UNCHANGED <<monitoring_functions, calculated_sleep_time, should_run,
                   previous_trace_function, trace, switch_counter,
                   active_greenlet, hub_state, gc_pending,
                   max_blocking_time, now, functions, sleep_time, min_sleep,
                   hub, this_run, idx, called, mb_result, reports, exc,
                   handled, last_error, hook_before, last_fwd, nsleeps,
                   nenv, sleeps_at_gc, tracer, detector, since_read,
                   since_clear, killers, settraces, adder, refresh_min>>

\* line 123, the right-hand side: min() over the list as it is now
RefreshMin ==
    /\ pc = "refresh_min"
    /\ refresh_min' = MinPeriod(heap, monitoring_functions)
    /\ pc' = "refresh_store"
    /\ UNCHANGED <<heap, monitoring_functions, calculated_sleep_time,
                   should_run, previous_trace_function, trace,
                   switch_counter, active_greenlet, hub_state, gc_pending,
                   max_blocking_time, now, functions, sleep_time, min_sleep,
                   hub, this_run, idx, called, mb_result, reports, exc,
                   handled, last_error, hook_before, last_fwd, nsleeps,
                   nenv, sleeps_at_gc, tracer, detector, since_read,
                   since_clear, killers, settraces, adder>>

\* line 123, the assignment; lines 124 and 193-195: the list is returned
\* and the sleep time calculated
RefreshStore ==
    /\ pc = "refresh_store"
    /\ calculated_sleep_time' = refresh_min
    /\ functions' = monitoring_functions
    /\ heap' = Reachable(heap, {monitoring_functions})
    /\ min_sleep' = refresh_min
    /\ sleep_time' = calculate_sleep_time(refresh_min)
    /\ pc' = "sleeping"
    /\ UNCHANGED <<monitoring_functions, should_run,
                   previous_trace_function, trace, switch_counter,
                   active_greenlet, hub_state, gc_pending,
                   max_blocking_time, now, hub, this_run, idx, called,
                   mb_result, reports, exc, handled, last_error,
                   hook_before, last_fwd, nsleeps, nenv, sleeps_at_gc,
                   tracer, detector, since_read, since_clear, killers,
                   settraces, adder, refresh_min>>

\* ------------------------------------------------------------- Next
\* the steps of the monitoring thread
Thread ==
    \/ LoopTop
    \/ Wake
    \/ AfterSleep
    \/ PassStep
    \/ Call

\* the calls that change the list of entries and the configuration
Registration ==
    \/ \E function \in FunctionArgs, period \in PeriodArgs :
          AddMonitoringFunction(function, period)
    \/ \E v \in MbtValues : ConfigChange(v)

\* the greenlet switches of the hub thread, the hub's end and kill()
Switching ==
    \/ \E event \in Events, target \in Greenlets : SwitchEvent(event, target)
    \/ IgnoreCurrentGreenletBlocking
    \/ \E g \in Greenlets : MonitorCurrentGreenletBlocking(g)
    \/ Kill
    \/ HubDies
    \/ HubCollected
    \/ \E thread \in Threads : OnHubGc(thread)

Next == Thread \/ Registration \/ Switching

Spec == Init /\ [][Next]_vars

\* The monitoring thread with a program that registers functions and sets
\* max_blocking_time, and with one that switches greenlets, loses its hub
\* and calls kill().
NextSchedule == Thread \/ Registration

InitSchedule == Init /\ hook_before = None

SpecSchedule == InitSchedule /\ [][NextSchedule]_vars

NextHooks == Thread \/ Switching

InitHooks == Init /\ max_blocking_time = Max(MbtValues)

SpecHooks == InitHooks /\ [][NextHooks]_vars


\* The operating system schedules the monitoring thread: a step of it that
\* stays possible is taken.
FairSpecHooks == SpecHooks /\ WF_vars(Thread)

\* The monitoring thread and the hub thread's trace events, with
\* greenlet_trace and monitor_blocking taken one read or write at a time.
BlockingSteps ==
    \/ BlockingReadActive
    \/ BlockingReadCounter
    \/ BlockingClear

TraceSteps ==
    \/ \E event \in Events, target \in Greenlets : TraceLoad(event, target)
    \/ TraceStore
    \/ TraceActive
    \/ TraceForward

NextRace ==
    \/ LoopTop
    \/ Wake
    \/ AfterSleep
    \/ PassStep
    \/ BlockingSteps
    \/ TraceSteps

SpecRace == InitHooks /\ [][NextRace]_vars

\* The monitoring thread, the end of the hub and kill() called on the hub
\* thread, with kill() taken one statement at a time on both threads.
KillSteps ==
    \/ KillCall
    \/ GcKillCall
    \/ \E thread \in Threads : KillSet(thread)
    \/ \E thread \in Threads : KillSettrace(thread)
    \/ \E thread \in Threads : KillClear(thread)

NextKillRace ==
    \/ LoopTop
    \/ Wake
    \/ AwakeLook
    \/ Recheck
    \/ PassStep
    \/ Call
    \/ KillSteps
    \/ HubDies
    \/ HubCollected

SpecKillRace == InitHooks /\ [][NextKillRace]_vars

\* The monitoring thread and the registrations, with the two places that
\* store the minimum of the periods taken step by step.
AddSteps ==
    \/ \E function \in FunctionArgs, period \in PeriodArgs :
          AddList(function, period)
    \/ AddMin
    \/ AddStore

RefreshSteps ==
    \/ LoopTopUnchanged
    \/ RefreshPeriod
    \/ RefreshMin
    \/ RefreshStore

NextTableRace ==
    \/ RefreshSteps
    \/ Wake
    \/ AfterSleep
    \/ PassStep
    \/ Call
    \/ AddSteps
    \/ \E v \in MbtValues : ConfigChange(v)

SpecTableRace == InitSchedule /\ [][NextTableRace]_vars

\* ----------------------------------------------------------- claims
\* the list of entries, its i-th entry, and whether a function has one
Table == monitoring_functions

Entry(i) == heap[Table[i]]

Registered(function) == \E i \in 1 .. Len(Table) : Entry(i).function = function

\* C1: a callback that raises terminates neither the pass nor the thread:
\* once the failing callback has been invoked, the thread is still in its
\* loop, going on to the entries after it.
C1_CallbackIsolation ==
    Bad \in Range(called) => pc \in {"call", "pass", "top", "sleeping", "awake"}

\* C2: an invocation of monitor_blocking returns (active greenlet, report)
\* and writes the report exactly when the counter was 0 and the active
\* greenlet is neither None nor the hub; otherwise it returns None and
\* writes nothing; the counter is 0 afterwards in every case.
C2_BlockingDecision ==
    [][(pc = "call" /\ called' # called
          /\ heap[functions[idx]].function = MonitorBlocking)
       => /\ switch_counter' = 0
          /\ IF switch_counter = 0 /\ active_greenlet # None
                /\ active_greenlet # hub
             THEN /\ mb_result' = [task |-> active_greenlet, report |-> TRUE]
                  /\ reports' = reports + 1
             ELSE /\ mb_result' = [task |-> None, report |-> FALSE]
                  /\ reports' = reports]_vars

\* a report naming greenlet g1 has been returned and the counter is reset
C2_Witness ==
    /\ mb_result = [task |-> "g1", report |-> TRUE]
    /\ reports = 1
    /\ switch_counter = 0
    /\ called = <<MonitorBlocking>>

\* C3: once kill() has been called, the hub thread's trace function is
\* the one installed before the monitor was made, trace events change
\* neither the switch counter nor the active greenlet, and a further
\* kill() changes nothing.
C3_StopRestoresHook ==
    /\ [](~should_run => trace[HubThread] = hook_before)
    /\ [][(~should_run /\ \E event \in Events, target \in Greenlets :
                             SwitchEvent(event, target))
          => UNCHANGED <<switch_counter, active_greenlet>>]_vars
    /\ [][(~should_run /\ Kill) => UNCHANGED vars]_vars

\* C4: once the hub is collected, the thread completes at most the one
\* sleep that was in progress or starts next, runs no callback, and after
\* that sleep should_run is false and the loop is left; with a sleep still
\* allowed it gets there, whether or not kill() is called from outside.
C4_LifetimeTie ==
    /\ [](hub_state = "gone"
          => /\ nsleeps - sleeps_at_gc <= 1
             /\ pc \notin {"pass", "call"}
             /\ (nsleeps - sleeps_at_gc = 1 /\ pc # "awake")
                  => (~should_run /\ pc \in {"top", "done"}))
    /\ ((hub_state = "gone" /\ nsleeps < MaxSleeps)
          ~> (~should_run /\ pc = "done"))

\* the hub is gone, its callback has not run and kill() was not called on
\* the hub thread, and the thread has stopped after one more sleep
C4_Witness ==
    /\ hub_state = "gone"
    /\ gc_pending
    /\ trace[HubThread] = GreenletTrace
    /\ nsleeps = sleeps_at_gc + 1
    /\ ~should_run
    /\ pc = "done"

\* the period argument None
NoPeriod == [none |-> TRUE, value |-> 0]

\* where the entry of a function is in the list
Position(function) ==
    CHOOSE i \in 1 .. Len(Table) : Entry(i).function = function

\* C5: no two entries of the list have the same function, and a call with
\* a valid period for a function already in the list leaves the list as
\* long as it was, with one entry of that function, at the same position,
\* having the new period.
C5_RegistrationUnique ==
    /\ [](\A i, j \in 1 .. Len(Table) :
             Entry(i).function = Entry(j).function => i = j)
    /\ [][\A function \in Callables, period \in PeriodArgs :
            (/\ AddMonitoringFunction(function, period)
             /\ ~period.none /\ period.value > 0
             /\ Registered(function))
            => /\ Len(Table') = Len(Table)
               /\ heap'[Table'[Position(function)]]
                    = MonitorEntry(function, period.value)
               /\ \A i \in 1 .. Len(Table) :
                     i # Position(function) => Table'[i] = Table[i]]_vars

\* the thread still iterates over a list with good at period 3 while the
\* list holds good, once, at period 10, beside another entry
C5_Witness ==
    /\ \E i \in 1 .. Len(functions) :
          /\ heap[functions[i]].function = Good
          /\ heap[functions[i]].period = 3
    /\ Len(Table) = 2
    /\ Entry(2).function = Good
    /\ Entry(2).period = 10

\* C6: a call that gives a new valid period to a function already in the
\* list leaves the last_run_time of its entry as it was.
C6_UpdateKeepsLastRun ==
    [][\A function \in Callables, period \in PeriodArgs :
         (/\ AddMonitoringFunction(function, period)
          /\ ~period.none /\ period.value > 0
          /\ Registered(function))
         => heap'[Table'[Position(function)]].last_run_time
              = Entry(Position(function)).last_run_time]_vars

\* C7: a call with period None for a function other than monitor_blocking
\* leaves no entry of that function and leaves the other entries, the same
\* objects unchanged, in their order; when the function has no entry, the
\* list and the cached minimum stay as they were.
C7_Removal ==
    [][\A function \in Callables \ {MonitorBlocking} :
         AddMonitoringFunction(function, NoPeriod)
         => /\ ~Registered(function)'
            /\ LET kept == {i \in 1 .. Len(Table) :
                              Entry(i).function # function}
               IN  /\ Len(Table') = Cardinality(kept)
                   /\ \A i \in kept :
                        LET k == Cardinality({j \in kept : j <= i})
                        IN  /\ Table'[k] = Table[i]
                            /\ heap'[Table'[k]] = Entry(i)
            /\ ~Registered(function)
                 => /\ Table' = Table
                    /\ calculated_sleep_time' = calculated_sleep_time
            /\ last_error' = None]_vars

\* the thread still iterates over a list with good in it, and the list
\* holds bad and no longer good
C7_Witness ==
    /\ \E i \in 1 .. Len(functions) : heap[functions[i]].function = Good
    /\ ~Registered(Good)
    /\ Registered(Bad)
    /\ Len(Table) = 2

\* C8: a call with a period that is 0 or negative, or with a function that
\* is not callable whatever the period, raises ValueError and leaves the
\* list, its entries and the cached minimum as they were.
C8_InvalidRegistration ==
    [][\A function \in FunctionArgs, period \in PeriodArgs :
         (/\ AddMonitoringFunction(function, period)
          /\ \/ function = NotCallable
             \/ (~period.none /\ period.value <= 0))
         => /\ last_error' \in {"ValueError: function must be callable",
                                "ValueError: Period must be positive."}
            /\ UNCHANGED <<monitoring_functions, heap,
                           calculated_sleep_time>>]_vars

\* a call has raised for its period while the list holds two entries
C8_Witness ==
    /\ last_error = "ValueError: Period must be positive."
    /\ Len(Table) = 2
    /\ nenv = 2

\* C9: the sleep time computed from the cached minimum m is the inactive
\* sleep time when m <= 0, and otherwise m or, when m is smaller than it,
\* the minimum sleep time; it is never less than the minimum sleep time.
C9_SleepTime ==
    pc = "sleeping"
    => /\ (min_sleep <= 0 => sleep_time = 2000)
       /\ (min_sleep > 0 /\ min_sleep < 5 => sleep_time = 5)
       /\ (min_sleep >= 5 => sleep_time = min_sleep)
       /\ sleep_time >= 5

\* the thread sleeps for the minimum sleep time, the cached minimum being
\* positive and smaller
C9_Witness ==
    /\ pc = "sleeping"
    /\ min_sleep = 3
    /\ sleep_time = 5

\* C10: in a pass taken at this_run, an entry is invoked if and only if
\* its period is > 0 and last_run_time + period <= this_run, with its
\* last_run_time set to this_run before the call; an entry that is not
\* invoked keeps its last_run_time.
C10_PassRule ==
    [][(pc = "pass" /\ idx <= Len(functions) /\ <<pc, idx>>' # <<pc, idx>>)
       => LET e == heap[functions[idx]]
          IN  IF e.period > 0 /\ e.last_run_time + e.period <= this_run
              THEN /\ pc' = "call"
                   /\ heap'[functions[idx]].last_run_time = this_run
              ELSE /\ pc' = "pass"
                   /\ heap' = heap]_vars


\* C14: every list monitoring_functions() returns has the entry of
\* monitor_blocking first, with the max_blocking_time read in that call as
\* its period.
C14_EntryZero ==
    [][(pc = "top" /\ pc' = "sleeping")
       => /\ Len(functions') >= 1
          /\ heap'[functions'[1]].function = MonitorBlocking
          /\ heap'[functions'[1]].period = max_blocking_time]_vars

\* the list returned holds monitor_blocking first, at the period 0 just
\* configured, and the entry of good after it
C14_Witness ==
    /\ pc = "sleeping"
    /\ Len(functions) = 2
    /\ heap[functions[1]] = MonitorEntry(MonitorBlocking, max_blocking_time)
    /\ heap[functions[2]].function = Good
    /\ max_blocking_time = 0
    /\ nenv = 3

\* C15: whenever the list holds an entry with a period > 0, the sleep time
\* the loop computes is the smallest such period p, or the minimum sleep
\* time when p is below it, whatever the period of monitor_blocking's
\* entry is; the inactive sleep time is for a list with no period > 0.
C15_InactiveOnlyWhenAllDisabled ==
    [][(pc = "top" /\ pc' = "sleeping")
       => LET positive == {p \in Periods(heap', functions') : p > 0}
          IN  IF positive # {}
              THEN sleep_time' = Max({Min(positive), min_sleep_time})
              ELSE sleep_time' = inactive_sleep_time]_vars

\* C19: a trace event delivered to greenlet_trace adds exactly 1 to the
\* switch counter whatever its kind, makes the active greenlet the target
\* for 'switch' and 'throw' and None for any other kind, and is forwarded
\* once, with the same event and arguments, to the previous trace function
\* when there is one and to nothing otherwise.
C19_SwitchObserverStep ==
    [][\A event \in Events, target \in Greenlets :
         (SwitchEvent(event, target) /\ trace[HubThread] = GreenletTrace)
         => /\ switch_counter' = switch_counter + 1
            /\ active_greenlet' = (IF event = "switch" \/ event = "throw"
                                   THEN target ELSE None)
            /\ IF previous_trace_function # None
               THEN last_fwd' = [n |-> 1, event |-> event, target |-> target]
               ELSE last_fwd'.n = 0]_vars

\* two events have been counted, the last one a throw into g1 that was
\* forwarded to the previous trace function
C19_Witness ==
    /\ should_run
    /\ switch_counter = 2
    /\ active_greenlet = "g1"
    /\ previous_trace_function = OtherHook
    /\ last_fwd = [n |-> 1, event |-> "throw", target |-> "g1"]

\* C16: should_run is true until the first kill() and changes in a kill()
\* only; once it is false no operation makes it true again, and no thread
\* that does not have greenlet_trace installed gets it installed.
C16_NoRestart ==
    /\ [][should_run' # should_run
            => (should_run /\ (Kill \/ AfterSleep
                                 \/ \E thread \in Threads : OnHubGc(thread)))]_vars
    /\ [][~should_run
            => /\ ~should_run'
               /\ \A thread \in Threads :
                     trace[thread] # GreenletTrace
                       => trace'[thread] # GreenletTrace]_vars

\* kill() was called, the hub was collected and its callback called kill()
\* again, trace events went to the restored function, and the thread left
C16_Witness ==
    /\ ~should_run
    /\ hub_state = "gone"
    /\ ~gc_pending
    /\ trace[HubThread] = OtherHook
    /\ last_fwd.n = 1
    /\ switch_counter = 0
    /\ pc = "done"

\* C17: once kill() has returned, the thread begins no pass and invokes no
\* callback after the sleep it is in; a pass in progress when kill() is
\* called goes on to the last entry of its list; and, with a sleep still
\* allowed, the thread leaves its loop.
C17_CooperativeStop ==
    /\ [][(~should_run /\ pc \in {"top", "sleeping", "awake"})
            => (pc' \notin {"pass", "call"} /\ called' = called)]_vars
    /\ [][(pc \in {"pass", "call"} /\ pc' \notin {"pass", "call"})
            => (idx > Len(functions) \/ exc' # None)]_vars
    /\ [][Kill => UNCHANGED <<pc, idx, functions, hub, this_run>>]_vars
    /\ ((~should_run /\ nsleeps < MaxSleeps) ~> pc = "done")

\* kill() was called on the hub thread while the pass had monitor_blocking
\* to call: the thread is at the call
C17_Witness ==
    /\ ~should_run
    /\ trace[HubThread] = hook_before
    /\ hub_state = "active"
    /\ pc = "call"
    /\ hub = Hub

\* C18, as stated: the thread that finds after a sleep that the hub is
\* gone stops the monitor and still takes one pass in that iteration.
C18_GracePass ==
    [][(pc = "awake" /\ should_run /\ hub_state = "gone" /\ AfterSleep)
       => (~should_run' /\ pc' = "pass")]_vars

\* C18, amended: the thread that finds after a sleep that the hub is gone
\* stops the monitor and takes no pass in that iteration: it invokes no
\* callback, goes back to the loop's test, and leaves the loop there.
C18_NoGracePass ==
    /\ [][(pc = "awake" /\ hub_state = "gone" /\ AfterSleep)
            => /\ ~should_run'
               /\ pc' = "top"
               /\ UNCHANGED <<called, heap, switch_counter, reports,
                              mb_result>>]_vars
    /\ [][(pc = "top" /\ ~should_run /\ LoopTop) => pc' = "done"]_vars

\* the thread woke up to a hub that was gone, with the callback of the weak
\* reference still to run: it has called kill(), which put the previous
\* trace function on the monitoring thread, and is back at the loop's test
C18_Witness ==
    /\ hub_state = "gone"
    /\ gc_pending
    /\ nsleeps = sleeps_at_gc + 1
    /\ ~should_run
    /\ trace[MonitorThread] = OtherHook
    /\ called = <<>>
    /\ pc = "top"

\* C20: whenever the thread has left its loop, for whatever reason, the
\* monitor is stopped: should_run is false and greenlet_trace is no longer
\* the trace function of the hub thread.
C20_TerminatedIsStopped ==
    pc = "done" => (~should_run /\ trace[HubThread] # GreenletTrace)

\* C11, as stated: under every interleaving of the reads and writes of
\* greenlet_trace and monitor_blocking, monitor_blocking reports only if no
\* trace event was delivered after the previous invocation read the
\* counter and before this one read it.
C11_OnlyFalseNegatives ==
    [][(BlockingClear /\ mb_result'.report) => detector.delivered = 0]_vars

\* C11, amended: monitor_blocking reports only if greenlet_trace stored no
\* counter after the previous invocation cleared it and before this one
\* read it, and the active greenlet it read is neither None nor the hub.
C11_NoStoreSinceClear ==
    [][(BlockingClear /\ mb_result'.report)
       => /\ detector.stored = 0
          /\ detector.active \notin {None, hub}]_vars

\* monitor_blocking has reported g1 although an event was delivered since
\* the previous invocation read the counter: its store came before that
\* invocation's clear
C11_Witness ==
    /\ mb_result = [task |-> "g1", report |-> TRUE]
    /\ detector.delivered = 1
    /\ detector.stored = 0
    /\ nsleeps = 2
    /\ pc = "pass"

\* C12: when kill() runs at overlapping times on two threads, settrace is
\* called once, with the trace function that was installed before the
\* monitor was made, and never with the handle that the other call has
\* already cleared.
C12_ConcurrentStop ==
    \A i \in 1 .. Len(settraces) :
        i = 1 /\ settraces[i].function = hook_before

\* C13: whenever neither add_monitoring_function nor the update of
\* monitoring_functions() is in progress, the cached minimum is the
\* minimum of the periods of the entries in the list, also when the two
\* interleave step by step.
C13_CachedMinimum ==
    (adder.pc = Idle /\ pc \notin {"refresh_min", "refresh_store"})
    => calculated_sleep_time = MinPeriod(heap, monitoring_functions)

=============================================================================
